---- MODULE Spec2Model ----
(***************************************************************************)
(* Model of the document upload form:                                      *)
(*   src/src/components/DocumentUpload.tsx      (FileUploadSection)        *)
(*   src/src/components/DocumentUploadForm.tsx  (DocumentUploadForm)       *)
(*                                                                         *)
(* The form owns formData and isSubmitting; each of the four               *)
(* FileUploadSection instances owns its own files and errors.  Handlers    *)
(* run to completion on the event loop; the only suspension points are     *)
(* the FileReader read inside generatePreview and the awaited transfer of  *)
(* handleSubmit.  A handler closes over the state of the render it was     *)
(* created in, so a suspended handleFiles keeps the `files` it was called  *)
(* with.                                                                   *)
(***************************************************************************)
EXTENDS Integers, Sequences, FiniteSets, Bags, TLC

VARIABLES files, errors, formData, isSubmitting, transfer, toast, calls,
          nAdds, nRemoves

vars == <<files, errors, formData, isSubmitting, transfer, toast, calls,
          nAdds, nRemoves>>

(* ---------------------------- bounds ----------------------------------- *)
\* Form-level specification (Spec): all four sections, drops of one file.
MaxAdds == 4
MaxRemoves == 1
\* Section-level specification (SlotSpec): one section, batches of SlotFiles.
SlotMaxBatch == 2
SlotMaxAdds == 2
SlotMaxRemoves == 1

(* ------------------------- configuration ------------------------------- *)
RequiredSections == <<"nationalId", "commercialRegistration", "taxCertificate">>

Slots == {"nationalId", "commercialRegistration", "taxCertificate", "companyLogo"}

\* maxFiles prop of each section as configured by the form
maxFiles ==
  [s \in Slots |-> IF s = "companyLogo" THEN 3 ELSE 5]

\* acceptedTypes prop of each section as configured by the form
acceptedTypes ==
  [s \in Slots |-> IF s = "companyLogo" THEN <<"JPG", "PNG">>
                                        ELSE <<"PDF", "JPG", "PNG">>]

maxSize == 10 * 1024 * 1024

(* ------------------------------ files ---------------------------------- *)
\* A File: name as its dot-separated parts, byte size, media type as the
\* parts around its first "/".
FilePdf == [name |-> <<"id", "pdf">>, size |-> 10 * 1024 * 1024,
            type |-> <<"application", "pdf">>]
FilePng == [name |-> <<"scan", "PNG">>, size |-> 2 * 1024 * 1024,
            type |-> <<"image", "png">>]
FileBig == [name |-> <<"photo", "jpeg">>, size |-> 10 * 1024 * 1024 + 1,
            type |-> <<"image", "jpeg">>]
FileTxt == [name |-> <<"notes", "txt">>, size |-> 1024,
            type |-> <<"text", "plain">>]

Files == {FilePdf, FilePng, FileBig, FileTxt}

\* the files offered in the form-level specification: one that the three
\* required sections accept, one that every section accepts after a preview
\* read, and one that none accepts
FormFiles == {FilePdf, FilePng, FileTxt}

\* the files offered in the section-level specification, on the logo
\* section: one of a type it does not accept, one it accepts, one too large
SlotFiles == {FilePdf, FilePng, FileBig}

RECURSIVE SeqsUpTo(_, _)
SeqsUpTo(S, n) ==
  IF n = 0 THEN {<<>>}
  ELSE LET shorter == SeqsUpTo(S, n - 1)
       IN shorter \cup {Append(q, x) : q \in {r \in shorter : Len(r) = n - 1}, x \in S}

\* the batches offered to a section in each specification: in the form-level
\* one a drop carries no file or one file
FormBatches == {<<>>} \cup {<<f>> : f \in FormFiles}

SlotBatches == SeqsUpTo(SlotFiles, SlotMaxBatch)

(* --------------------------- pure helpers ------------------------------ *)
\* String.prototype.toLowerCase on the extensions that occur
toLowerCase(str) ==
  CASE str = "PNG" -> "png"
    [] str = "PDF" -> "pdf"
    [] str = "JPG" -> "jpg"
    [] str = "JPEG" -> "jpeg"
    [] str = "TXT" -> "txt"
    [] OTHER -> str

\* file.name.split('.').pop()?.toLowerCase()
fileExtension(file) == toLowerCase(file.name[Len(file.name)])

typeMatches(type, ext) ==
  CASE type = "PDF" -> ext = "pdf"
    [] type = "JPG" -> ext = "jpg" \/ ext = "jpeg"
    [] type = "PNG" -> ext = "png"
    [] OTHER -> FALSE

isValidType(file, accepted) ==
  \E k \in 1..Len(accepted) : typeMatches(accepted[k], fileExtension(file))

\* validateFile: "null" when the file passes, else the reason
validateFile(file, accepted) ==
  IF ~isValidType(file, accepted) THEN "Invalid file type"
  ELSE IF file.size > maxSize THEN "File size must be less than 10MB"
  ELSE "null"

\* file.type.startsWith('image/')
isImage(file) == file.type[1] = "image"

(* ------------------------- handleFiles --------------------------------- *)
\* An invocation of handleFiles: the closure's `files`, the batch, the loop
\* position and the two local arrays.  pc is "run" while it executes,
\* "reading" while it awaits a FileReader, "hung" when the reader ended in
\* an error that nothing listens for, "done" after the loop.
NewCall(s, fileList) ==
  [slot |-> s, files |-> files[s], filesToProcess |-> fileList, i |-> 1,
   validFiles |-> <<>>, newErrors |-> <<>>, pc |-> "run"]

IdsOf(list) == {list[k].id : k \in 1..Len(list)}

\* ids visible to section s: in its state, in the form's entry, and in the
\* handleFiles invocations in flight on it
UsedIds(s) ==
  IdsOf(files[s]) \cup IdsOf(formData[s]) \cup
  UNION {IdsOf(c.files) \cup IdsOf(c.validFiles) :
           c \in {d \in BagToSet(calls) : d.slot = s}}

\* Math.random().toString(36).substr(2, 9): a value that collides with no
\* id in sight (a collision has probability about 36^-9); the least such
\* natural number stands for it.
newId(c) ==
  LET used == UsedIds(c.slot) \cup IdsOf(c.files) \cup IdsOf(c.validFiles)
  IN CHOOSE n \in 1..(Cardinality(used) + 1) :
       /\ n \notin used
       /\ \A m \in 1..(n - 1) : m \in used

\* variant: the check ignores the files already held
exceedsCapacityBatchOnly(held, added, max) == added > max

exceedsCapacity(held, added, max) == held + added > max

capacityError == [name |-> <<>>, reason |-> "Maximum file(s) allowed"]

fileError(file, error) == [name |-> file.name, reason |-> error]

\* validFiles.push({file, id, preview}) and the step to the next file
pushValid(c, preview) ==
  [c EXCEPT !.validFiles =
              Append(@, [file |-> c.filesToProcess[c.i], id |-> newId(c),
                         preview |-> preview]),
            !.i = @ + 1, !.pc = "run"]

\* the capacity check that precedes the loop
checkCapacity(c) ==
  IF exceedsCapacity(Len(c.files), Len(c.filesToProcess), maxFiles[c.slot])
  THEN [c EXCEPT !.newErrors = Append(@, capacityError),
                 !.i = Len(c.filesToProcess) + 1]
  ELSE c

\* the for loop, run until it must wait for a FileReader or has finished.
\* The await on a file that is not an image resumes in a microtask, before
\* any other event is handled, so it does not end the step.
RECURSIVE runLoop(_)
runLoop(c) ==
  IF c.i > Len(c.filesToProcess) THEN [c EXCEPT !.pc = "done"]
  ELSE LET file == c.filesToProcess[c.i]
           error == validateFile(file, acceptedTypes[c.slot])
       IN IF error # "null"
          THEN runLoop([c EXCEPT !.newErrors = Append(@, fileError(file, error)),
                                 !.i = @ + 1])
          ELSE IF isImage(file)
               THEN [c EXCEPT !.pc = "reading"]
               ELSE runLoop(pushValid(c, "undefined"))

\* variant: appends to the section's list at the time of the update, as a
\* functional setFiles(prev => [...prev, ...validFiles]) would
updatedFilesOnCurrent(c) == files[c.slot] \o c.validFiles

\* const updatedFiles = [...files, ...validFiles]
updatedFiles(c) == c.files \o c.validFiles

\* updateFormData(section, files)
updateFormData(section, list) == [formData EXCEPT ![section] = list]

\* variant: reports the errors and admits the files that passed
finishAdmitValid(c) ==
  /\ errors' = [errors EXCEPT ![c.slot] = c.newErrors]
  /\ files' = [files EXCEPT ![c.slot] = updatedFiles(c)]
  /\ formData' = updateFormData(c.slot, updatedFiles(c))
  /\ toast' = IF Len(c.newErrors) > 0 THEN "Upload Error"
              ELSE IF Len(c.validFiles) > 0 THEN "Files Uploaded" ELSE toast

\* the tail of handleFiles, after the loop
finish(c) ==
  IF Len(c.newErrors) > 0
  THEN /\ errors' = [errors EXCEPT ![c.slot] = c.newErrors]
       /\ toast' = "Upload Error"
       /\ UNCHANGED <<files, formData>>
  ELSE /\ errors' = [errors EXCEPT ![c.slot] = <<>>]
       /\ files' = [files EXCEPT ![c.slot] = updatedFiles(c)]
       /\ formData' = updateFormData(c.slot, updatedFiles(c))
       /\ toast' = IF Len(c.validFiles) > 0 THEN "Files Uploaded" ELSE toast

\* where an invocation stands after a step: finished, or parked in calls
settle(c, others) ==
  IF c.pc = "done"
  THEN /\ finish(c)
       /\ calls' = others
  ELSE /\ calls' = others (+) SetToBag({c})
       /\ UNCHANGED <<files, errors, formData, toast>>

\* handleFiles(fileList) on section s, up to its first FileReader wait
HandleFiles(s, fileList) ==
  /\ settle(runLoop(checkCapacity(NewCall(s, fileList))), calls)
  /\ nAdds' = nAdds + 1
  /\ UNCHANGED <<isSubmitting, transfer, nRemoves>>

\* reader.onload: the preview resolves and the invocation continues
PreviewLoaded(c) ==
  /\ BagIn(c, calls)
  /\ c.pc = "reading"
  /\ settle(runLoop(pushValid(c, "dataURL")), calls (-) SetToBag({c}))
  /\ UNCHANGED <<isSubmitting, transfer, nAdds, nRemoves>>

\* the read ends in an error: no onerror handler, the promise never settles
PreviewFailed(c) ==
  /\ BagIn(c, calls)
  /\ c.pc = "reading"
  /\ calls' = (calls (-) SetToBag({c})) (+) SetToBag({[c EXCEPT !.pc = "hung"]})
  /\ UNCHANGED <<files, errors, formData, isSubmitting, transfer, toast,
                 nAdds, nRemoves>>

(* --------------------------- removeFile -------------------------------- *)
\* variant: also drops the entries whose id sorts before id
withoutIdAndBefore(list, id) == SelectSeq(list, LAMBDA f : f.id > id)

\* files.filter(f => f.id !== id)
withoutId(list, id) == SelectSeq(list, LAMBDA f : f.id # id)

RemoveFile(s, id) ==
  /\ files' = [files EXCEPT ![s] = withoutId(files[s], id)]
  /\ formData' = updateFormData(s, withoutId(files[s], id))
  /\ nRemoves' = nRemoves + 1
  /\ UNCHANGED <<errors, isSubmitting, transfer, toast, calls, nAdds>>

(* ------------------------ form aggregator ------------------------------ *)
\* variant: Math.floor in place of Math.round
MathFloor(num, den) == num \div den

\* Math.round of the rational num/den (num, den >= 0): floor(num/den + 1/2)
MathRound(num, den) == (2 * num + den) \div (2 * den)

getCompletionPercentage ==
  LET completedSections ==
        SelectSeq(RequiredSections, LAMBDA section : Len(formData[section]) > 0)
  IN MathRound(Len(completedSections) * 100, Len(RequiredSections))

\* variant: the tax certificate is not asked for
isFormValidWithoutTax ==
  /\ Len(formData["nationalId"]) > 0
  /\ Len(formData["commercialRegistration"]) > 0

\* variant: the logo is asked for as well
isFormValidWithLogo ==
  /\ Len(formData["nationalId"]) > 0
  /\ Len(formData["commercialRegistration"]) > 0
  /\ Len(formData["taxCertificate"]) > 0
  /\ Len(formData["companyLogo"]) > 0

isFormValid ==
  /\ Len(formData["nationalId"]) > 0
  /\ Len(formData["commercialRegistration"]) > 0
  /\ Len(formData["taxCertificate"]) > 0

emptyFormData == [s \in Slots |-> <<>>]

(* --------------------------- handleSubmit ------------------------------ *)
\* handleSubmit up to its await.  The submit control is disabled while
\* isSubmitting, so one transfer is in flight at most; the handler's own
\* validity check decides an attempt on an incomplete form.
HandleSubmit ==
  /\ ~isSubmitting
  /\ IF ~isFormValid
     THEN /\ toast' = "Incomplete Form"
          /\ UNCHANGED <<isSubmitting, transfer>>
     ELSE /\ isSubmitting' = TRUE
          /\ transfer' = "pending"
          /\ UNCHANGED toast
  /\ UNCHANGED <<files, errors, formData, calls, nAdds, nRemoves>>

\* the awaited transfer resolves: try block, then finally
TransferSucceeds ==
  /\ transfer = "pending"
  /\ toast' = "Documents Uploaded Successfully!"
  /\ formData' = emptyFormData
  /\ isSubmitting' = FALSE
  /\ transfer' = "none"
  /\ UNCHANGED <<files, errors, calls, nAdds, nRemoves>>

\* variant: the failure path resets the form as the success path does
TransferFailsAndResets ==
  /\ transfer = "pending"
  /\ toast' = "Upload Failed"
  /\ formData' = emptyFormData
  /\ isSubmitting' = FALSE
  /\ transfer' = "none"
  /\ UNCHANGED <<files, errors, calls, nAdds, nRemoves>>

\* the awaited transfer rejects: catch block, then finally
TransferFails ==
  /\ transfer = "pending"
  /\ toast' = "Upload Failed"
  /\ isSubmitting' = FALSE
  /\ transfer' = "none"
  /\ UNCHANGED <<files, errors, formData, calls, nAdds, nRemoves>>

(* -------------------------- specifications ----------------------------- *)
Init ==
  /\ files = [s \in Slots |-> <<>>]
  /\ errors = [s \in Slots |-> <<>>]
  /\ formData = emptyFormData
  /\ isSubmitting = FALSE
  /\ transfer = "none"
  /\ toast = "none"
  /\ calls = EmptyBag
  /\ nAdds = 0
  /\ nRemoves = 0

\* ids a remove can name on section s: those in sight and one that is not
RemovableIds(s) == 1..(Cardinality(UsedIds(s)) + 1)

Next ==
  \/ \E s \in Slots, fileList \in FormBatches :
       nAdds < MaxAdds /\ HandleFiles(s, fileList)
  \/ \E c \in BagToSet(calls) : PreviewLoaded(c)
  \/ \E s \in Slots : \E id \in RemovableIds(s) :
       nRemoves < MaxRemoves /\ RemoveFile(s, id)
  \/ HandleSubmit
  \/ TransferSucceeds
  \/ TransferFails

Spec == Init /\ [][Next]_vars

\* The section-level specification: one FileUploadSection, the company logo
\* section (maxFiles 3, JPG and PNG accepted), under every batch
SlotSections == {"companyLogo"}

SlotNext ==
  \/ \E s \in SlotSections, fileList \in SlotBatches :
       nAdds < SlotMaxAdds /\ HandleFiles(s, fileList)
  \/ \E c \in BagToSet(calls) : PreviewLoaded(c)
  \/ \E c \in BagToSet(calls) : PreviewFailed(c)
  \/ \E s \in SlotSections : \E id \in RemovableIds(s) :
       nRemoves < SlotMaxRemoves /\ RemoveFile(s, id)

SlotSpec == Init /\ [][SlotNext]_vars

TypeOK ==
  /\ isSubmitting \in BOOLEAN
  /\ transfer \in {"none", "pending"}
  /\ \A s \in Slots : formData[s] \in {files[s], <<>>}

(* ============================== claims ================================= *)
Required == {RequiredSections[k] : k \in 1..Len(RequiredSections)}

\* the handleFiles invocation that a step starts on section s
started(s, fileList) == runLoop(checkCapacity(NewCall(s, fileList)))

\* the invocation c as it stands after its pending read has loaded
resumed(c) == runLoop(pushValid(c, "dataURL"))

hasInvalid(s, fileList) ==
  \E k \in 1..Len(fileList) : validateFile(fileList[k], acceptedTypes[s]) # "null"

SlotFrame(s) == files'[s] = files[s] /\ formData'[s] = formData[s]

Rejected(s) == Len(errors'[s]) > 0 /\ toast' = "Upload Error"

\* C1: in every reachable state each section holds at most its configured
\* maxFiles files, in its own list and in the form's entry for it,
\* whatever batch adds (overlapping ones included) and removes came before.
C1_CountWithinMax ==
  \A s \in Slots : Len(files[s]) <= maxFiles[s] /\ Len(formData[s]) <= maxFiles[s]

\* the logo section is full (3 files) after two adds
C1_Witness ==
  /\ Len(files["companyLogo"]) = maxFiles["companyLogo"]
  /\ nAdds = 2

\* the step leaves every section but s as it was
OthersKept(s) ==
  \A t \in Slots \ {s} : files'[t] = files[t] /\ errors'[t] = errors[t]

\* the step leaves section s and its form entry as they were and either
\* parks an invocation at a preview read or reports errors on s
KeptAndRefused(s) == SlotFrame(s) /\ (calls' # calls \/ Rejected(s))

\* C2: a batch within capacity with at least one file that fails validation
\* is rejected whole: every step of that handleFiles invocation (its start
\* and each resumption after a preview read) leaves the section's list and
\* the form's entry as they were, and the step that ends it reports errors.
\* For the starting step this is stated by contraposition: a step that does
\* not do so on s is not the start of such a batch on s.
C2_InvalidBatchRejected ==
  [][/\ nAdds' = nAdds + 1 =>
          \A s \in Slots :
            \/ KeptAndRefused(s)
            \/ ~OthersKept(s)
            \/ \A fileList \in SlotBatches :
                 ( /\ Len(files[s]) + Len(fileList) <= maxFiles[s]
                   /\ hasInvalid(s, fileList) )
                 => ~HandleFiles(s, fileList)
     /\ nAdds' = nAdds =>
          \A c \in BagToSet(calls) :
            ( /\ hasInvalid(c.slot, c.filesToProcess)
              /\ PreviewLoaded(c) )
            => /\ SlotFrame(c.slot)
               /\ resumed(c).pc = "done" => Rejected(c.slot)
    ]_vars

\* a batch mixing a passing and a failing file was rejected on a section
\* that already held a file, which it still holds
C2_Witness ==
  /\ toast = "Upload Error"
  /\ Len(files["companyLogo"]) = 1
  /\ Len(errors["companyLogo"]) = 1
  /\ errors["companyLogo"][1].name = FileBig.name
  /\ nAdds = 2
  /\ calls = EmptyBag

\* C3: a batch whose size added to the current count exceeds maxFiles is
\* rejected whole with the capacity error, at once, and the section's list
\* and the form's entry stay as they were, also when every file is valid.
C3_OverCapacityRejected ==
  [][nAdds' = nAdds + 1 =>
       \A s \in Slots, fileList \in SlotBatches :
         ( /\ Len(files[s]) + Len(fileList) > maxFiles[s]
           /\ HandleFiles(s, fileList) )
         => /\ SlotFrame(s)
            /\ errors'[s] = <<capacityError>>
            /\ toast' = "Upload Error"
            /\ calls' = calls
    ]_vars

\* the section holds files and its last add was turned away for capacity
C3_Witness ==
  /\ errors["companyLogo"] = <<capacityError>>
  /\ Len(files["companyLogo"]) = 2
  /\ toast = "Upload Error"

\* C4: a submit attempted while a required section is empty (in its own
\* list or in the form's entry) is rejected: isSubmitting stays false, no
\* transfer is started, formData is unchanged, "Incomplete Form" is shown.
C4_InvalidSubmitRejected ==
  [][( /\ HandleSubmit
       /\ \E s \in Required : Len(files[s]) = 0 \/ Len(formData[s]) = 0 )
     => /\ ~isSubmitting'
        /\ transfer = "none" /\ transfer' = "none"
        /\ formData' = formData
        /\ toast' = "Incomplete Form"
    ]_vars

\* identity and registration filled, tax empty, submit turned away
C4_Witness ==
  /\ toast = "Incomplete Form"
  /\ Len(formData["nationalId"]) > 0
  /\ Len(formData["commercialRegistration"]) > 0
  /\ Len(formData["taxCertificate"]) = 0
  /\ ~isSubmitting
  /\ transfer = "none"

\* C5: after a transfer that succeeds all four sections are empty, in
\* formData and in each section's own list.
C5_ResetClearsSlots ==
  [][TransferSucceeds =>
       \A s \in Slots : Len(formData'[s]) = 0 /\ Len(files'[s]) = 0]_vars

\* C6: isValid() is true exactly when each of the three required sections
\* has at least one file in formData, and a step that changes no required
\* entry (a change of the logo entry at most) leaves it as it was.
C6_ValidIffRequiredHeld ==
  /\ [](isFormValid <=> \A s \in Required : Len(formData[s]) >= 1)
  /\ [][(\A s \in Required : formData'[s] = formData[s])
        => (isFormValid' <=> isFormValid)]_vars

\* valid with the logo present
C6_Witness ==
  /\ isFormValid
  /\ Len(formData["companyLogo"]) > 0

\* C7: completionPercentage() is 0, 33, 67 or 100 according to the number
\* (0, 1, 2, 3) of required sections with at least one file in formData.
C7_CompletionRounded ==
  LET held == Cardinality({s \in Required : Len(formData[s]) >= 1})
  IN getCompletionPercentage =
       CASE held = 0 -> 0 [] held = 1 -> 33 [] held = 2 -> 67 [] held = 3 -> 100

\* two of three required sections held, one of them with two files, and
\* the logo present: 67
C7_Witness ==
  /\ getCompletionPercentage = 67
  /\ \E s \in Required : Len(formData[s]) = 2
  /\ Len(formData["companyLogo"]) > 0

\* C8: removeFile(id) deletes the entry with that id and keeps the others in
\* their order; with no such entry the list is unchanged; a second
\* removeFile(id) would change nothing; no other section is touched.
C8_RemoveFrame ==
  [][\A s \in Slots : \A id \in RemovableIds(s) :
       RemoveFile(s, id) =>
         /\ IF id \in IdsOf(files[s])
            THEN \E k \in 1..Len(files[s]) :
                   /\ files[s][k].id = id
                   /\ files'[s] = SubSeq(files[s], 1, k - 1)
                                    \o SubSeq(files[s], k + 1, Len(files[s]))
            ELSE files'[s] = files[s]
         /\ id \notin IdsOf(files'[s])
         /\ withoutId(files'[s], id) = files'[s]
         /\ \A t \in Slots \ {s} : files'[t] = files[t] /\ formData'[t] = formData[t]
         /\ errors' = errors /\ toast' = toast
    ]_vars

\* the first of three entries was removed, the other two remain
C8_Witness ==
  /\ nRemoves > 0
  /\ Len(files["companyLogo"]) = 2
  /\ IdsOf(files["companyLogo"]) = {2, 3}

\* C9: when the transfer fails formData and the sections are left as they
\* were, "Upload Failed" is shown, and the submission goes from Submitting
\* back to Idle with no transfer in flight.
C9_FailureKeepsState ==
  [][TransferFails =>
       /\ formData' = formData
       /\ files' = files
       /\ toast' = "Upload Failed"
       /\ isSubmitting /\ ~isSubmitting'
       /\ transfer' = "none"
    ]_vars

C9_Witness ==
  /\ toast = "Upload Failed"
  /\ isFormValid
  /\ ~isSubmitting
  /\ transfer = "none"

\* C10: an accepted batch add that completes after a preview read appends
\* its batch to the section's list as it stands at that moment.
C10_AtomicAppend ==
  [][\A c \in BagToSet(calls) :
       ( /\ PreviewLoaded(c)
         /\ resumed(c).pc = "done"
         /\ Len(resumed(c).newErrors) = 0 )
       => files'[c.slot] = files[c.slot] \o resumed(c).validFiles
    ]_vars

\* C11: a preview read is in progress, or has ended, only for a batch in
\* which every file passes validation: a handleFiles invocation waiting at
\* generatePreview carries no file that fails validateFile.
C11_PreviewAfterAllValid ==
  \A c \in BagToSet(calls) : ~hasInvalid(c.slot, c.filesToProcess)

\* C12 (as claimed): while a submission is Submitting, and so when its
\* transfer completes, every required section has at least one file in the
\* form's data.
C12_ValidWhileSubmitting ==
  isSubmitting => \A s \in Required : Len(formData[s]) >= 1

\* C12 (amended): at the step from Idle to Submitting every required section
\* has at least one file, in the form's data and in its own list; nothing
\* keeps it so while the transfer is in flight.
C12_ValidOnEnteringSubmitting ==
  [][(~isSubmitting /\ isSubmitting') =>
       /\ \A s \in Required : Len(formData[s]) >= 1 /\ Len(files[s]) >= 1
       /\ formData' = formData
       /\ transfer' = "pending"
    ]_vars

\* a submission in flight whose tax certificate was removed after the check
C12_Witness ==
  /\ isSubmitting
  /\ transfer = "pending"
  /\ nRemoves = 1
  /\ Len(formData["taxCertificate"]) = 0
  /\ Len(formData["nationalId"]) > 0
  /\ Len(formData["commercialRegistration"]) > 0

\* C13: every handleFiles invocation completes, accepted or rejected,
\* whatever the outcome of its preview reads: no invocation is left waiting
\* on a read that has already ended, in a load or in an error.
C13_AddCompletes ==
  \A c \in BagToSet(calls) : c.pc # "hung"

====
